---- MODULE Spec2Model ----
(***************************************************************************)
(* Model of src/pipeline.rs of comically: process_files (the dispatcher    *)
(* and the parallel fan-out over the comics) and poll_kindlegen (the       *)
(* supervisor of the spawned KindleGen processes).                         *)
(*                                                                         *)
(* Threads: the dispatcher (the caller of process_files), one task per     *)
(* comic of the rayon par_bridge fan-out, the supervisor thread spawned    *)
(* for Mobi output, and the external KindleGen processes.                  *)
(***************************************************************************)
EXTENDS Integers, Sequences, FiniteSets, TLC

\* Largest number of input files of a batch.
MaxFiles == 2

Formats == {"Cbz", "Epub", "Mobi"}

\* ComicStatus as the observer sees it. "None" is an id that has no status
\* yet; "Process", "Package" and "Convert" are InProgress in that stage.
Terminal == {"Success", "Failed"}
Statuses == {"None", "Pending", "Process", "Package", "Convert"} \cup Terminal

\* The collaborator calls made on behalf of one comic.
Steps == {"new", "unarchive", "images", "build", "move", "spawn", "wait"}

VARIABLES
    output_format,   \* config.output_format
    nfiles,          \* files.len()
    dpc,             \* position of process_files
    idx,             \* the id the enumerate() of the first pass is at
    comics,          \* ids of the comics Comic::new built (the Vec comics)
    wpc,             \* position of the fan-out closure for each comic
    status,          \* ComicStatus of each id
    processed_files, \* comic.processed_files of each id
    output_dir,      \* ids whose artifact was renamed into the output dir
    kindlegen_tx,    \* TRUE while the Sender of the kindlegen channel lives
    kindlegen_rx,    \* TRUE while the Receiver of the kindlegen channel lives
    chan,            \* comics sent on the kindlegen channel, not yet received
    spc,             \* position of the supervisor thread
    pending,         \* poll_kindlegen's Vec<Option<KindleGenStatus>>
    pi,              \* index of the for loop over pending
    proc,            \* state of the KindleGen process of each id
    registerLog,     \* ids of the RegisterComic events, in emission order
    updates,         \* statuses of the ComicUpdate events of each id, in order
    completeCount,   \* number of ProcessingComplete events emitted
    completeBy,      \* the threads that emitted a ProcessingComplete
    outcomes,        \* result of each collaborator call made for each id
    sent,            \* number of times each id was sent on the channel
    checked,         \* last result of try_wait for each id
    panicked         \* TRUE once an unwrap() on a failed send panicked

vars == <<output_format, nfiles, dpc, idx, comics, wpc, status,
          processed_files, output_dir, kindlegen_tx, kindlegen_rx, chan,
          spc, pending, pi, proc, registerLog, updates, completeCount,
          completeBy, outcomes, sent, checked, panicked>>

Ids == 0 .. (MaxFiles - 1)

\* Option<KindleGenStatus>: Some(s) is <<id>>, None is <<>>.
Some(id) == <<id>>
NoneSlot == <<>>

Result(ok) == IF ok THEN "ok" ELSE "err"

----------------------------------------------------------------------------
(* Comic's methods (comic.rs), as the specification describes them.        *)

\* update_status / image_processing_start: status becomes InProgress(stage).
update_status(st, id, stage) == [st EXCEPT ![id] = stage]

\* success(): status becomes Success.
success(st, id) == [st EXCEPT ![id] = "Success"]

\* failed(): status becomes Failed{error}.
failed(st, id) == [st EXCEPT ![id] = "Failed"]

\* with_try(f): runs f; on Err marks the comic Failed, reports it and yields
\* None. It is one method, called at lines 80, 102, 111, 127, 165 and 206,
\* so an Err of the collection of line 208 marks the comic Failed as an Err
\* of any stage does. `onOk` is the status f left on its success path.
with_try(st, id, ok, onOk) == IF ok THEN onOk ELSE failed(st, id)

\* Every status change is reported as a ComicUpdate{id, status}.
emit(up, id, s) == [up EXCEPT ![id] = Append(@, s)]

\* The events one with_try call emits: the updates of f's path, then Failed
\* when f returned Err.
emit_try(up, id, ok, path) ==
    [up EXCEPT ![id] = @ \o path \o (IF ok THEN <<>> ELSE <<"Failed">>)]

record(oc, id, step, ok) == [oc EXCEPT ![id][step] = Result(ok)]

----------------------------------------------------------------------------
Init ==
    /\ output_format \in Formats
    /\ nfiles \in 0 .. MaxFiles
    /\ dpc = "spawn"
    /\ idx = 0
    /\ comics = {}
    /\ wpc = [i \in Ids |-> "idle"]
    /\ status = [i \in Ids |-> "None"]
    /\ processed_files = [i \in Ids |-> <<>>]
    /\ output_dir = {}
    /\ kindlegen_tx = TRUE
    /\ kindlegen_rx = TRUE
    /\ chan = <<>>
    /\ spc = "none"
    /\ pending = <<>>
    /\ pi = 1
    /\ proc = [i \in Ids |-> "none"]
    /\ registerLog = <<>>
    /\ updates = [i \in Ids |-> <<>>]
    /\ completeCount = 0
    /\ completeBy = {}
    /\ outcomes = [i \in Ids |-> [s \in Steps |-> "none"]]
    /\ sent = [i \in Ids |-> 0]
    /\ checked = [i \in Ids |-> "none"]
    /\ panicked = FALSE

----------------------------------------------------------------------------
(* process_files: the dispatcher                                           *)

\* DispSpawn with the format test of line 26 dropped.
DispSpawn_Always ==
    /\ dpc = "spawn"
    /\ spc' = "drain"
    /\ dpc' = "register"
    /\ UNCHANGED <<output_format, nfiles, idx, comics, wpc, status,
                   processed_files, output_dir, kindlegen_tx, kindlegen_rx,
                   chan, pending, pi, proc, registerLog, updates,
                   completeCount, completeBy, outcomes, sent, checked,
                   panicked>>

\* Lines 24-35: the channel exists; for Mobi the supervisor thread starts.
DispSpawn ==
    /\ dpc = "spawn"
    /\ spc' = IF output_format = "Mobi" THEN "drain" ELSE spc
    /\ dpc' = "register"
    /\ UNCHANGED <<output_format, nfiles, idx, comics, wpc, status,
                   processed_files, output_dir, kindlegen_tx, kindlegen_rx,
                   chan, pending, pi, proc, registerLog, updates,
                   completeCount, completeBy, outcomes, sent, checked,
                   panicked>>

\* DispRegister with the id taken after the filter_map (the number of comics
\* built so far) instead of from enumerate().
DispRegister_CountsComics ==
    /\ dpc = "register"
    /\ idx < nfiles
    /\ registerLog' = Append(registerLog, Cardinality(comics))
    /\ dpc' = "construct"
    /\ UNCHANGED <<output_format, nfiles, idx, comics, wpc, status,
                   processed_files, output_dir, kindlegen_tx, kindlegen_rx,
                   chan, spc, pending, pi, proc, updates, completeCount,
                   completeBy, outcomes, sent, checked, panicked>>

\* Lines 41-52: the next file's RegisterComic{id, file_name}.
DispRegister ==
    /\ dpc = "register"
    /\ idx < nfiles
    /\ registerLog' = Append(registerLog, idx)
    /\ dpc' = "construct"
    /\ UNCHANGED <<output_format, nfiles, idx, comics, wpc, status,
                   processed_files, output_dir, kindlegen_tx, kindlegen_rx,
                   chan, spc, pending, pi, proc, updates, completeCount,
                   completeBy, outcomes, sent, checked, panicked>>

\* DispConstruct with a map in place of the filter_map of line 40: the file
\* whose construction failed stays among the comics.
DispConstruct_KeepsFailed ==
    /\ dpc = "construct"
    /\ \E ok \in BOOLEAN :
        /\ outcomes' = record(outcomes, idx, "new", ok)
        /\ comics' = comics \cup {idx}
        /\ status' = [status EXCEPT ![idx] = IF ok THEN "Pending" ELSE "Failed"]
        /\ updates' = IF ok THEN updates ELSE emit(updates, idx, "Failed")
    /\ idx' = idx + 1
    /\ dpc' = "register"
    /\ UNCHANGED <<output_format, nfiles, wpc, processed_files, output_dir,
                   kindlegen_tx, kindlegen_rx, chan, spc, pending, pi, proc,
                   registerLog, completeCount, completeBy, sent, checked,
                   panicked>>

\* DispConstruct without the collect() of line 74: par_bridge pulls from the
\* lazy iterator, so a comic's closure can start as soon as it is built.
DispConstruct_NoCollect ==
    /\ dpc = "construct"
    /\ \E ok \in BOOLEAN :
        /\ outcomes' = record(outcomes, idx, "new", ok)
        /\ comics' = IF ok THEN comics \cup {idx} ELSE comics
        /\ status' = [status EXCEPT ![idx] = IF ok THEN "Pending" ELSE "Failed"]
        /\ updates' = IF ok THEN updates ELSE emit(updates, idx, "Failed")
        /\ wpc' = IF ok THEN [wpc EXCEPT ![idx] = "process"] ELSE wpc
    /\ idx' = idx + 1
    /\ dpc' = "register"
    /\ UNCHANGED <<output_format, nfiles, processed_files, output_dir,
                   kindlegen_tx, kindlegen_rx, chan, spc, pending, pi, proc,
                   registerLog, completeCount, completeBy, sent, checked,
                   panicked>>

\* Lines 54-72: Comic::new; Err emits ComicUpdate{id, Failed} and drops the
\* file, Ok keeps the comic.
DispConstruct ==
    /\ dpc = "construct"
    /\ \E ok \in BOOLEAN :
        /\ outcomes' = record(outcomes, idx, "new", ok)
        /\ comics' = IF ok THEN comics \cup {idx} ELSE comics
        /\ status' = [status EXCEPT ![idx] = IF ok THEN "Pending" ELSE "Failed"]
        /\ updates' = IF ok THEN updates ELSE emit(updates, idx, "Failed")
    /\ idx' = idx + 1
    /\ dpc' = "register"
    /\ UNCHANGED <<output_format, nfiles, wpc, processed_files, output_dir,
                   kindlegen_tx, kindlegen_rx, chan, spc, pending, pi, proc,
                   registerLog, completeCount, completeBy, sent, checked,
                   panicked>>

\* DispFanOut with an early return on an empty Vec of comics, before the
\* match of line 140.
DispFanOut_ReturnsOnEmpty ==
    /\ dpc = "register"
    /\ idx = nfiles
    /\ wpc' = [i \in Ids |-> IF i \in comics THEN "process" ELSE wpc[i]]
    /\ dpc' = IF comics = {} THEN "return" ELSE "join"
    /\ UNCHANGED <<output_format, nfiles, idx, comics, status,
                   processed_files, output_dir, kindlegen_tx, kindlegen_rx,
                   chan, spc, pending, pi, proc, registerLog, updates,
                   completeCount, completeBy, outcomes, sent, checked,
                   panicked>>

\* Lines 74-79: the first pass is collected; the fan-out over comics starts.
DispFanOut ==
    /\ dpc = "register"
    /\ idx = nfiles
    /\ wpc' = [i \in Ids |-> IF i \in comics THEN "process" ELSE wpc[i]]
    /\ dpc' = "join"
    /\ UNCHANGED <<output_format, nfiles, idx, comics, status,
                   processed_files, output_dir, kindlegen_tx, kindlegen_rx,
                   chan, spc, pending, pi, proc, registerLog, updates,
                   completeCount, completeBy, outcomes, sent, checked,
                   panicked>>

\* DispComplete with the match of line 140 emitting for every format.
DispComplete_AllFormats ==
    /\ dpc = "join"
    /\ \A i \in comics : wpc[i] = "done"
    /\ completeCount' = completeCount + 1
    /\ completeBy' = completeBy \cup {"dispatcher"}
    /\ dpc' = "return"
    /\ UNCHANGED <<output_format, nfiles, idx, comics, wpc, status,
                   processed_files, output_dir, kindlegen_tx, kindlegen_rx,
                   chan, spc, pending, pi, proc, registerLog, updates,
                   outcomes, sent, checked, panicked>>

\* Lines 138-147: for_each returns once every closure has returned; Epub and
\* Cbz then emit ProcessingComplete.
DispComplete ==
    /\ dpc = "join"
    /\ \A i \in comics : wpc[i] = "done"
    /\ IF output_format \in {"Epub", "Cbz"}
       THEN /\ completeCount' = completeCount + 1
            /\ completeBy' = completeBy \cup {"dispatcher"}
       ELSE UNCHANGED <<completeCount, completeBy>>
    /\ dpc' = "return"
    /\ UNCHANGED <<output_format, nfiles, idx, comics, wpc, status,
                   processed_files, output_dir, kindlegen_tx, kindlegen_rx,
                   chan, spc, pending, pi, proc, registerLog, updates,
                   outcomes, sent, checked, panicked>>

\* DispReturn with the Sender kept alive (a clone that outlives the call).
DispReturn_KeepsSender ==
    /\ dpc = "return"
    /\ kindlegen_rx' = IF output_format = "Mobi" THEN kindlegen_rx ELSE FALSE
    /\ dpc' = "done"
    /\ UNCHANGED <<output_format, nfiles, idx, comics, wpc, status,
                   processed_files, output_dir, kindlegen_tx, chan, spc,
                   pending, pi, proc, registerLog, updates, completeCount,
                   completeBy, outcomes, sent, checked, panicked>>

\* Line 148: process_files returns and drops kindlegen_tx; kindlegen_rx is
\* dropped with it unless it was moved into the supervisor thread.
DispReturn ==
    /\ dpc = "return"
    /\ kindlegen_tx' = FALSE
    /\ kindlegen_rx' = IF output_format = "Mobi" THEN kindlegen_rx ELSE FALSE
    /\ dpc' = "done"
    /\ UNCHANGED <<output_format, nfiles, idx, comics, wpc, status,
                   processed_files, output_dir, chan, spc, pending, pi, proc,
                   registerLog, updates, completeCount, completeBy, outcomes,
                   sent, checked, panicked>>

----------------------------------------------------------------------------
(* process_files: the fan-out closure, one run per comic                   *)

\* The results of lines 80-93: unarchive_comic_iter failed, or
\* process_archive_images failed, or both returned Ok.
ProcessResults == {"unarchive_err", "images_err", "ok"}

\* The calls of lines 80-93 recorded for one result.
record_process(oc, id, r) ==
    IF r = "unarchive_err"
    THEN record(oc, id, "unarchive", FALSE)
    ELSE record(record(oc, id, "unarchive", TRUE), id, "images", r = "ok")

\* WorkerProcess with an Err that ends the whole fan-out (a try_for_each):
\* the comics not yet started are never run.
WorkerProcess_StopsFanOut(id) ==
    /\ wpc[id] = "process"
    /\ \E r \in ProcessResults :
        /\ outcomes' = record_process(outcomes, id, r)
        /\ status' = with_try(status, id, r = "ok", update_status(status, id, "Process"))
        /\ updates' = emit_try(updates, id, r = "ok",
                        IF r = "unarchive_err" THEN <<>> ELSE <<"Process">>)
        /\ processed_files' =
              IF r = "ok" THEN [processed_files EXCEPT ![id] = <<"image">>]
                          ELSE processed_files
        /\ wpc' = IF r = "ok" THEN [wpc EXCEPT ![id] = "package"]
                  ELSE [i \in Ids |-> IF wpc[i] = "process" THEN "done" ELSE wpc[i]]
    /\ UNCHANGED <<output_format, nfiles, dpc, idx, comics, output_dir,
                   kindlegen_tx, kindlegen_rx, chan, spc, pending, pi, proc,
                   registerLog, completeCount, completeBy, sent, checked,
                   panicked>>

\* WorkerProcess without the ? of line 93: the closure goes on after an Err.
WorkerProcess_ContinuesOnError(id) ==
    /\ wpc[id] = "process"
    /\ \E r \in ProcessResults :
        /\ outcomes' = record_process(outcomes, id, r)
        /\ status' = with_try(status, id, r = "ok", update_status(status, id, "Process"))
        /\ updates' = emit_try(updates, id, r = "ok",
                        IF r = "unarchive_err" THEN <<>> ELSE <<"Process">>)
        /\ processed_files' =
              IF r = "ok" THEN [processed_files EXCEPT ![id] = <<"image">>]
                          ELSE processed_files
        /\ wpc' = [wpc EXCEPT ![id] = "package"]
    /\ UNCHANGED <<output_format, nfiles, dpc, idx, comics, output_dir,
                   kindlegen_tx, kindlegen_rx, chan, spc, pending, pi, proc,
                   registerLog, completeCount, completeBy, sent, checked,
                   panicked>>

\* Lines 80-97: one with_try: unarchive_comic_iter, image_processing_start,
\* process_archive_images. Ok stores the images in comic.processed_files;
\* an Err of either call marks the comic Failed and returns from the closure.
WorkerProcess(id) ==
    /\ wpc[id] = "process"
    /\ \E r \in ProcessResults :
        /\ outcomes' = record_process(outcomes, id, r)
        /\ status' = with_try(status, id, r = "ok", update_status(status, id, "Process"))
        /\ updates' = emit_try(updates, id, r = "ok",
                        IF r = "unarchive_err" THEN <<>> ELSE <<"Process">>)
        /\ processed_files' =
              IF r = "ok" THEN [processed_files EXCEPT ![id] = <<"image">>]
                          ELSE processed_files
        /\ wpc' = [wpc EXCEPT ![id] = IF r = "ok" THEN "package" ELSE "done"]
    /\ UNCHANGED <<output_format, nfiles, dpc, idx, comics, output_dir,
                   kindlegen_tx, kindlegen_rx, chan, spc, pending, pi, proc,
                   registerLog, completeCount, completeBy, sent, checked,
                   panicked>>

\* WorkerBuild without the ? of lines 124 and 132: Epub and Mobi go on to
\* the rename or the send after build_epub returned Err.
WorkerBuild_IgnoresFailure(id) ==
    /\ wpc[id] = "package"
    /\ \E ok \in BOOLEAN :
        /\ outcomes' = record(outcomes, id, "build", ok)
        /\ status' = with_try(status, id, ok,
                        IF output_format = "Cbz"
                        THEN success(status, id)
                        ELSE update_status(status, id, "Package"))
        /\ updates' = emit_try(updates, id, ok,
                        IF ok /\ output_format = "Cbz"
                        THEN <<"Package", "Success">>
                        ELSE <<"Package">>)
        /\ wpc' = [wpc EXCEPT ![id] =
                        IF output_format = "Cbz" THEN "done"
                        ELSE IF output_format = "Epub" THEN "move"
                        ELSE "send"]
    /\ UNCHANGED <<output_format, nfiles, dpc, idx, comics, processed_files,
                   output_dir, kindlegen_tx, kindlegen_rx, chan, spc, pending,
                   pi, proc, registerLog, completeCount, completeBy, sent,
                   checked, panicked>>

\* WorkerBuild with the Mobi arm calling success() as the other arms do,
\* before the send.
WorkerBuild_MobiSuccess(id) ==
    /\ wpc[id] = "package"
    /\ \E ok \in BOOLEAN :
        /\ outcomes' = record(outcomes, id, "build", ok)
        /\ status' = with_try(status, id, ok,
                        IF output_format \in {"Cbz", "Mobi"}
                        THEN success(status, id)
                        ELSE update_status(status, id, "Package"))
        /\ updates' = emit_try(updates, id, ok,
                        IF ok /\ output_format \in {"Cbz", "Mobi"}
                        THEN <<"Package", "Success">>
                        ELSE <<"Package">>)
        /\ wpc' = [wpc EXCEPT ![id] =
                        IF ~ok \/ output_format = "Cbz" THEN "done"
                        ELSE IF output_format = "Epub" THEN "move"
                        ELSE "send"]
    /\ UNCHANGED <<output_format, nfiles, dpc, idx, comics, processed_files,
                   output_dir, kindlegen_tx, kindlegen_rx, chan, spc, pending,
                   pi, proc, registerLog, completeCount, completeBy, sent,
                   checked, panicked>>

\* Lines 99-114, 126-132: update_status(Package), then build_cbz or
\* build_epub. Cbz ends in success(); Epub goes on to the rename; Mobi goes
\* on to the send.
WorkerBuild(id) ==
    /\ wpc[id] = "package"
    /\ \E ok \in BOOLEAN :
        /\ outcomes' = record(outcomes, id, "build", ok)
        /\ status' = with_try(status, id, ok,
                        IF output_format = "Cbz"
                        THEN success(status, id)
                        ELSE update_status(status, id, "Package"))
        /\ updates' = emit_try(updates, id, ok,
                        IF ok /\ output_format = "Cbz"
                        THEN <<"Package", "Success">>
                        ELSE <<"Package">>)
        /\ wpc' = [wpc EXCEPT ![id] =
                        IF ~ok \/ output_format = "Cbz" THEN "done"
                        ELSE IF output_format = "Epub" THEN "move"
                        ELSE "send"]
    /\ UNCHANGED <<output_format, nfiles, dpc, idx, comics, processed_files,
                   output_dir, kindlegen_tx, kindlegen_rx, chan, spc, pending,
                   pi, proc, registerLog, completeCount, completeBy, sent,
                   checked, panicked>>

\* WorkerMove with success() called before the rename of line 118.
WorkerMove_SuccessFirst(id) ==
    /\ wpc[id] = "move"
    /\ \E ok \in BOOLEAN :
        /\ outcomes' = record(outcomes, id, "move", ok)
        /\ output_dir' = IF ok THEN output_dir \cup {id} ELSE output_dir
        /\ status' = with_try(status, id, ok, success(status, id))
        /\ updates' = emit_try(updates, id, ok, <<"Success">>)
    /\ wpc' = [wpc EXCEPT ![id] = "done"]
    /\ UNCHANGED <<output_format, nfiles, dpc, idx, comics, processed_files,
                   kindlegen_tx, kindlegen_rx, chan, spc, pending, pi, proc,
                   registerLog, completeCount, completeBy, sent, checked,
                   panicked>>

\* Lines 116-124: Epub: rename the file into the output dir, then success().
WorkerMove(id) ==
    /\ wpc[id] = "move"
    /\ \E ok \in BOOLEAN :
        /\ outcomes' = record(outcomes, id, "move", ok)
        /\ output_dir' = IF ok THEN output_dir \cup {id} ELSE output_dir
        /\ status' = with_try(status, id, ok, success(status, id))
        /\ updates' = emit_try(updates, id, ok, IF ok THEN <<"Success">> ELSE <<>>)
    /\ wpc' = [wpc EXCEPT ![id] = "done"]
    /\ UNCHANGED <<output_format, nfiles, dpc, idx, comics, processed_files,
                   kindlegen_tx, kindlegen_rx, chan, spc, pending, pi, proc,
                   registerLog, completeCount, completeBy, sent, checked,
                   panicked>>

\* Line 133: Mobi: kindlegen_tx.send(comic).unwrap(). The send fails, and
\* the unwrap panics, when the receiver is gone.
WorkerSend(id) ==
    /\ wpc[id] = "send"
    /\ IF kindlegen_rx
       THEN /\ chan' = Append(chan, id)
            /\ sent' = [sent EXCEPT ![id] = @ + 1]
            /\ UNCHANGED panicked
       ELSE /\ panicked' = TRUE
            /\ UNCHANGED <<chan, sent>>
    /\ wpc' = [wpc EXCEPT ![id] = "done"]
    /\ UNCHANGED <<output_format, nfiles, dpc, idx, comics, status,
                   processed_files, output_dir, kindlegen_tx, kindlegen_rx,
                   spc, pending, pi, proc, registerLog, updates,
                   completeCount, completeBy, outcomes, checked>>

----------------------------------------------------------------------------
(* poll_kindlegen: the supervisor thread                                   *)

InFlight == {i \in Ids : \E k \in 1 .. Len(pending) : pending[k] = Some(i)}

RECURSIVE retain(_)
\* pending.retain(|s| s.is_some())
retain(p) ==
    IF p = <<>> THEN <<>>
    ELSE IF Head(p) = NoneSlot THEN retain(Tail(p))
    ELSE <<Head(p)>> \o retain(Tail(p))

\* SupRecv without the if let of line 170: a record is pushed although
\* create_mobi returned Err.
SupRecv_PushesOnError ==
    /\ spc = "drain"
    /\ chan # <<>>
    /\ LET id == Head(chan) IN
       \E ok \in BOOLEAN :
        /\ outcomes' = record(outcomes, id, "spawn", ok)
        /\ status' = with_try(status, id, ok, update_status(status, id, "Convert"))
        /\ updates' = emit_try(updates, id, ok, <<"Convert">>)
        /\ pending' = Append(pending, Some(id))
        /\ proc' = IF ok THEN [proc EXCEPT ![id] = "running"] ELSE proc
    /\ chan' = Tail(chan)
    /\ UNCHANGED <<output_format, nfiles, dpc, idx, comics, wpc,
                   processed_files, output_dir, kindlegen_tx, kindlegen_rx,
                   spc, pi, registerLog, completeCount, completeBy, sent,
                   checked, panicked>>

\* Lines 161-177: try_recv returned a comic: update_status(Convert), then
\* create_mobi; Ok pushes the KindleGenStatus, Err marks the comic Failed.
SupRecv ==
    /\ spc = "drain"
    /\ chan # <<>>
    /\ LET id == Head(chan) IN
       \E ok \in BOOLEAN :
        /\ outcomes' = record(outcomes, id, "spawn", ok)
        /\ status' = with_try(status, id, ok, update_status(status, id, "Convert"))
        /\ updates' = emit_try(updates, id, ok, <<"Convert">>)
        /\ pending' = IF ok THEN Append(pending, Some(id)) ELSE pending
        /\ proc' = IF ok THEN [proc EXCEPT ![id] = "running"] ELSE proc
    /\ chan' = Tail(chan)
    /\ UNCHANGED <<output_format, nfiles, dpc, idx, comics, wpc,
                   processed_files, output_dir, kindlegen_tx, kindlegen_rx,
                   spc, pi, registerLog, completeCount, completeBy, sent,
                   checked, panicked>>

\* SupEmpty treating Empty as Disconnected: the loop is left when the queue
\* is empty and nothing is in flight.
SupEmpty_ExitsWhenIdle ==
    /\ spc = "drain"
    /\ chan = <<>>
    /\ kindlegen_tx
    /\ IF pending = <<>>
       THEN /\ spc' = "exited"
            /\ kindlegen_rx' = FALSE
            /\ UNCHANGED pi
       ELSE /\ spc' = "poll"
            /\ pi' = 1
            /\ UNCHANGED kindlegen_rx
    /\ UNCHANGED <<output_format, nfiles, dpc, idx, comics, wpc, status,
                   processed_files, output_dir, kindlegen_tx, chan, pending,
                   proc, registerLog, updates, completeCount, completeBy,
                   outcomes, sent, checked, panicked>>

\* Lines 185-187: try_recv returned Empty: on to the poll phase.
SupEmpty ==
    /\ spc = "drain"
    /\ chan = <<>>
    /\ kindlegen_tx
    /\ spc' = "poll"
    /\ pi' = 1
    /\ UNCHANGED <<output_format, nfiles, dpc, idx, comics, wpc, status,
                   processed_files, output_dir, kindlegen_tx, kindlegen_rx,
                   chan, pending, proc, registerLog, updates, completeCount,
                   completeBy, outcomes, sent, checked, panicked>>

\* SupDisconnected taken as soon as the sender is dropped, whether or not
\* comics are still buffered in the channel.
SupDisconnected_IgnoresBuffer ==
    /\ spc = "drain"
    /\ ~kindlegen_tx
    /\ IF pending = <<>>
       THEN /\ spc' = "exited"
            /\ kindlegen_rx' = FALSE
            /\ UNCHANGED pi
       ELSE /\ spc' = "poll"
            /\ pi' = 1
            /\ UNCHANGED kindlegen_rx
    /\ UNCHANGED <<output_format, nfiles, dpc, idx, comics, wpc, status,
                   processed_files, output_dir, kindlegen_tx, chan, pending,
                   proc, registerLog, updates, completeCount, completeBy,
                   outcomes, sent, checked, panicked>>

\* SupDisconnected without the pending.is_empty() test of line 179.
SupDisconnected_IgnoresPending ==
    /\ spc = "drain"
    /\ chan = <<>>
    /\ ~kindlegen_tx
    /\ spc' = "exited"
    /\ kindlegen_rx' = FALSE
    /\ UNCHANGED <<output_format, nfiles, dpc, idx, comics, wpc, status,
                   processed_files, output_dir, kindlegen_tx, chan, pending,
                   pi, proc, registerLog, updates, completeCount, completeBy,
                   outcomes, sent, checked, panicked>>

\* Lines 178-184: try_recv returned Disconnected: leave the outer loop when
\* pending is empty (poll_kindlegen returns and drops the receiver), else on
\* to the poll phase.
SupDisconnected ==
    /\ spc = "drain"
    /\ chan = <<>>
    /\ ~kindlegen_tx
    /\ IF pending = <<>>
       THEN /\ spc' = "exited"
            /\ kindlegen_rx' = FALSE
            /\ UNCHANGED pi
       ELSE /\ spc' = "poll"
            /\ pi' = 1
            /\ UNCHANGED kindlegen_rx
    /\ UNCHANGED <<output_format, nfiles, dpc, idx, comics, wpc, status,
                   processed_files, output_dir, kindlegen_tx, chan, pending,
                   proc, registerLog, updates, completeCount, completeBy,
                   outcomes, sent, checked, panicked>>

\* try_wait of a KindleGen process: Ok(Some) only of a process that exited,
\* Ok(None) only of one still running, Err of either.
TryWaitResults(id) ==
    {"err"} \cup (IF proc[id] = "exited" THEN {"done"} ELSE {"notdone"})

\* SupCheck with Ok(None) mapped to is_done = true at line 195.
SupCheck_NotDoneIsDone ==
    /\ spc = "poll"
    /\ pi <= Len(pending)
    /\ IF pending[pi] = NoneSlot
       THEN /\ pi' = pi + 1
            /\ UNCHANGED <<spc, checked>>
       ELSE LET id == pending[pi][1] IN
            \E r \in TryWaitResults(id) :
              /\ checked' = [checked EXCEPT ![id] = r]
              /\ spc' = "collect"
              /\ UNCHANGED pi
    /\ UNCHANGED <<output_format, nfiles, dpc, idx, comics, wpc, status,
                   processed_files, output_dir, kindlegen_tx, kindlegen_rx,
                   chan, pending, proc, registerLog, updates, completeCount,
                   completeBy, outcomes, sent, panicked>>

\* Lines 191-202: the next slot of pending: is_done from try_wait.
SupCheck ==
    /\ spc = "poll"
    /\ pi <= Len(pending)
    /\ IF pending[pi] = NoneSlot
       THEN /\ pi' = pi + 1
            /\ UNCHANGED <<spc, checked>>
       ELSE LET id == pending[pi][1] IN
            \E r \in TryWaitResults(id) :
              /\ checked' = [checked EXCEPT ![id] = r]
              /\ IF r = "notdone"
                 THEN /\ pi' = pi + 1
                      /\ UNCHANGED spc
                 ELSE /\ spc' = "collect"
                      /\ UNCHANGED pi
    /\ UNCHANGED <<output_format, nfiles, dpc, idx, comics, wpc, status,
                   processed_files, output_dir, kindlegen_tx, kindlegen_rx,
                   chan, pending, proc, registerLog, updates, completeCount,
                   completeBy, outcomes, sent, panicked>>

\* SupCollect with the slot taken only when wait() returned Ok: a record
\* whose collection failed stays in pending.
SupCollect_KeepsOnError ==
    /\ spc = "collect"
    /\ LET id == pending[pi][1] IN
        /\ proc[id] = "exited"
        /\ \E ok \in BOOLEAN :
            /\ outcomes' = record(outcomes, id, "wait", ok)
            /\ status' = with_try(status, id, ok, success(status, id))
            /\ updates' = emit_try(updates, id, ok, IF ok THEN <<"Success">> ELSE <<>>)
            /\ pending' = IF ok THEN [pending EXCEPT ![pi] = NoneSlot] ELSE pending
    /\ pi' = pi + 1
    /\ spc' = "poll"
    /\ UNCHANGED <<output_format, nfiles, dpc, idx, comics, wpc,
                   processed_files, output_dir, kindlegen_tx, kindlegen_rx,
                   chan, proc, registerLog, completeCount, completeBy, sent,
                   checked, panicked>>

\* Lines 204-215: is_done: take the slot, wait() for the process (blocks
\* until it has exited), then success(), or Failed when wait returned Err.
SupCollect ==
    /\ spc = "collect"
    /\ LET id == pending[pi][1] IN
        /\ proc[id] = "exited"
        /\ \E ok \in BOOLEAN :
            /\ outcomes' = record(outcomes, id, "wait", ok)
            /\ status' = with_try(status, id, ok, success(status, id))
            /\ updates' = emit_try(updates, id, ok, IF ok THEN <<"Success">> ELSE <<>>)
    /\ pending' = [pending EXCEPT ![pi] = NoneSlot]
    /\ pi' = pi + 1
    /\ spc' = "poll"
    /\ UNCHANGED <<output_format, nfiles, dpc, idx, comics, wpc,
                   processed_files, output_dir, kindlegen_tx, kindlegen_rx,
                   chan, proc, registerLog, completeCount, completeBy, sent,
                   checked, panicked>>

\* SupRetain without the retain of line 218: the taken slots stay.
SupRetain_KeepsAll ==
    /\ spc = "poll"
    /\ pi > Len(pending)
    /\ pi' = 1
    /\ spc' = "drain"
    /\ UNCHANGED <<output_format, nfiles, dpc, idx, comics, wpc, status,
                   processed_files, output_dir, kindlegen_tx, kindlegen_rx,
                   chan, pending, proc, registerLog, updates, completeCount,
                   completeBy, outcomes, sent, checked, panicked>>

\* Lines 218-220: the for loop is over: retain the Some slots, sleep, and
\* start the next outer iteration.
SupRetain ==
    /\ spc = "poll"
    /\ pi > Len(pending)
    /\ pending' = retain(pending)
    /\ pi' = 1
    /\ spc' = "drain"
    /\ UNCHANGED <<output_format, nfiles, dpc, idx, comics, wpc, status,
                   processed_files, output_dir, kindlegen_tx, kindlegen_rx,
                   chan, proc, registerLog, updates, completeCount,
                   completeBy, outcomes, sent, checked, panicked>>

\* Lines 30-33: poll_kindlegen returned: the thread emits ProcessingComplete.
SupComplete ==
    /\ spc = "exited"
    /\ completeCount' = completeCount + 1
    /\ completeBy' = completeBy \cup {"supervisor"}
    /\ spc' = "done"
    /\ UNCHANGED <<output_format, nfiles, dpc, idx, comics, wpc, status,
                   processed_files, output_dir, kindlegen_tx, kindlegen_rx,
                   chan, pending, pi, proc, registerLog, updates, outcomes,
                   sent, checked, panicked>>

\* A spawned KindleGen process runs to completion on its own.
ProcFinish(id) ==
    /\ proc[id] = "running"
    /\ proc' = [proc EXCEPT ![id] = "exited"]
    /\ UNCHANGED <<output_format, nfiles, dpc, idx, comics, wpc, status,
                   processed_files, output_dir, kindlegen_tx, kindlegen_rx,
                   chan, spc, pending, pi, registerLog, updates,
                   completeCount, completeBy, outcomes, sent, checked,
                   panicked>>

----------------------------------------------------------------------------
Dispatcher ==
    \/ DispSpawn
    \/ DispRegister
    \/ DispConstruct
    \/ DispFanOut
    \/ DispComplete
    \/ DispReturn

Worker(id) ==
    \/ WorkerProcess(id)
    \/ WorkerBuild(id)
    \/ WorkerMove(id)
    \/ WorkerSend(id)

Supervisor ==
    \/ SupRecv
    \/ SupEmpty
    \/ SupDisconnected
    \/ SupCheck
    \/ SupCollect
    \/ SupRetain
    \/ SupComplete

Next ==
    \/ Dispatcher
    \/ \E id \in Ids : Worker(id)
    \/ Supervisor
    \/ \E id \in Ids : ProcFinish(id)

Spec == Init /\ [][Next]_vars

\* The scheduler runs every thread that can take a step, and every spawned
\* KindleGen process eventually exits.
Fairness ==
    /\ WF_vars(Dispatcher)
    /\ \A id \in Ids : WF_vars(Worker(id))
    /\ WF_vars(Supervisor)
    /\ \A id \in Ids : WF_vars(ProcFinish(id))

FairSpec == Spec /\ Fairness

----------------------------------------------------------------------------
(* Helpers of the properties                                               *)

Registered == {registerLog[k] : k \in 1 .. Len(registerLog)}

\* Ids sent on the kindlegen channel, received from it, and finalized by
\* the supervisor (Failed at spawn, or collected after the poll).
Enqueued == {i \in Ids : sent[i] > 0}
Received == {i \in Ids : outcomes[i]["spawn"] # "none"}
Finalized == {i \in Ids : outcomes[i]["spawn"] = "err" \/ outcomes[i]["wait"] # "none"}

\* Position of a status in Pending -> Process -> Package -> Convert -> terminal.
Rank(s) ==
    CASE s = "None" -> 0
      [] s = "Pending" -> 1
      [] s = "Process" -> 2
      [] s = "Package" -> 3
      [] s = "Convert" -> 4
      [] OTHER -> 5

\* The collaborator calls a comic goes through for each output format.
Pipeline(fmt) ==
    CASE fmt = "Cbz" -> <<"new", "unarchive", "images", "build">>
      [] fmt = "Epub" -> <<"new", "unarchive", "images", "build", "move">>
      [] OTHER -> <<"new", "unarchive", "images", "build", "spawn", "wait">>

RECURSIVE Verdict(_, _)
\* The terminal status that one comic's own call results determine: Failed
\* at its first Err, Success when every call of its pipeline returned Ok,
\* Undetermined while a call is still to be made.
Verdict(o, steps) ==
    IF steps = <<>> THEN "Success"
    ELSE IF o[Head(steps)] = "err" THEN "Failed"
    ELSE IF o[Head(steps)] = "none" THEN "Undetermined"
    ELSE Verdict(o, Tail(steps))

----------------------------------------------------------------------------
\* C1: at most one ProcessingComplete is ever emitted. For Cbz and Epub only
\* the dispatcher emits it, after the fan-out has returned, and no supervisor
\* exists; for Mobi only the supervisor thread emits it, after poll_kindlegen
\* has returned, and the dispatcher emits none.
C1_AtMostOneComplete ==
    /\ completeCount <= 1
    /\ output_format \in {"Cbz", "Epub"} =>
          /\ completeBy \subseteq {"dispatcher"}
          /\ spc = "none"
          /\ completeCount = 1 =>
                /\ dpc \in {"return", "done"}
                /\ \A i \in comics : wpc[i] = "done"
    /\ output_format = "Mobi" =>
          /\ completeBy \subseteq {"supervisor"}
          /\ completeCount = 1 => spc = "done"

\* A Mobi batch that completed with a failed item and a converted one.
C1_Witness ==
    /\ output_format = "Mobi"
    /\ completeCount = 1
    /\ dpc = "done"
    /\ \E i, j \in Ids : status[i] = "Failed" /\ status[j] = "Success"

\* C2: under fair scheduling, with every spawned process eventually exiting,
\* ProcessingComplete is eventually emitted for every batch, whatever fails.
C2_EventuallyComplete == <>(completeCount >= 1)

\* A completed Mobi batch in which every item failed: one at spawn, one at
\* the result collection.
C2_Witness ==
    /\ output_format = "Mobi"
    /\ completeCount = 1
    /\ \E i, j \in Ids :
          /\ outcomes[i]["spawn"] = "err"
          /\ outcomes[j]["wait"] = "err"

C4_Step ==
    \A i \in Ids :
        /\ status[i] \in Terminal =>
              /\ status'[i] = status[i]
              /\ updates'[i] = updates[i]
        /\ Rank(status'[i]) >= Rank(status[i])
        /\ (status'[i] # status[i] /\ status'[i] \notin Terminal) =>
              Rank(status'[i]) = Rank(status[i]) + 1
        /\ status'[i] = "Convert" => output_format = "Mobi"
        /\ \A k \in 1 .. (Len(updates'[i]) - 1) :
              Rank(updates'[i][k]) < Rank(updates'[i][k + 1])

C4_TerminalMonotonic == [][C4_Step]_vars

\* A finished Mobi batch: one comic failed in build_epub before the
\* supervisor ran on, another went through every stage to Success.
C4_Witness ==
    /\ output_format = "Mobi"
    /\ spc = "done"
    /\ \E i, j \in Ids :
          /\ outcomes[i]["build"] = "err"
          /\ status[i] = "Failed"
          /\ updates[j] = <<"Process", "Package", "Convert", "Success">>

\* C5: the RegisterComic events carry the ids 0, 1, 2, ... in input order,
\* one per file (a file whose construction fails keeps its id), all N of
\* them once the first pass is over, and an id has no ComicUpdate and no
\* status before its RegisterComic.
C5_RegisterOnePerFile ==
    /\ \A k \in 1 .. Len(registerLog) : registerLog[k] = k - 1
    /\ Len(registerLog) <= nfiles
    /\ dpc = "register" => Len(registerLog) = idx
    /\ dpc = "construct" => Len(registerLog) = idx + 1
    /\ dpc \in {"join", "return", "done"} => Len(registerLog) = nfiles
    /\ \A i \in Ids :
          (updates[i] # <<>> \/ status[i] # "None") => i \in Registered

\* A finished batch of two or more files whose first file failed to open.
C5_Witness ==
    /\ dpc = "done"
    /\ nfiles >= 2
    /\ outcomes[0]["new"] = "err"
    /\ outcomes[1]["new"] = "ok"
    /\ Len(registerLog) = nfiles

C7_ShortCircuit ==
    \A i \in Ids :
        /\ (outcomes[i]["unarchive"] = "err" \/ outcomes[i]["images"] = "err") =>
              /\ status[i] = "Failed"
              /\ processed_files[i] = <<>>
              /\ \A k \in 1 .. Len(updates[i]) :
                    updates[i][k] \notin {"Package", "Convert", "Success"}
              /\ i \notin output_dir
              /\ sent[i] = 0
              /\ \A s \in {"build", "move", "spawn", "wait"} : outcomes[i][s] = "none"
        /\ outcomes[i]["unarchive"] = "err" => outcomes[i]["images"] = "none"
        /\ outcomes[i]["build"] = "err" =>
              /\ status[i] = "Failed"
              /\ i \notin output_dir
              /\ sent[i] = 0
              /\ \A k \in 1 .. Len(updates[i]) :
                    updates[i][k] \notin {"Convert", "Success"}
              /\ \A s \in {"move", "spawn", "wait"} : outcomes[i][s] = "none"

\* A finished batch with one comic failed in the transformation and one
\* failed in packaging.
C7_Witness ==
    /\ dpc = "done"
    /\ \E i, j \in Ids :
          /\ outcomes[i]["images"] = "err"
          /\ outcomes[j]["build"] = "err"

\* C8: an entity is sent on the supervisor queue at most once, only for Mobi
\* output and only after its build_epub succeeded; in Cbz and Epub batches
\* nothing is ever enqueued and no supervisor is started.
C8_EnqueueAtMostOnce ==
    /\ \A i \in Ids :
          /\ sent[i] <= 1
          /\ sent[i] >= 1 =>
                /\ output_format = "Mobi"
                /\ outcomes[i]["build"] = "ok"
          /\ Cardinality({k \in 1 .. Len(chan) : chan[k] = i}) <= sent[i]
    /\ output_format # "Mobi" =>
          /\ spc = "none"
          /\ chan = <<>>
          /\ pending = <<>>
          /\ Enqueued = {}

\* A Mobi batch: one comic is enqueued, another failed assembly and was not.
C8_Witness ==
    /\ output_format = "Mobi"
    /\ \E i, j \in Ids :
          /\ sent[i] = 1
          /\ outcomes[j]["build"] = "err"
          /\ wpc[j] = "done"
          /\ sent[j] = 0

\* C9 as stated: a Mobi entity is Success only after the supervisor's
\* non-blocking check observed its own process as finished and the blocking
\* collection returned success.
C9_SuccessOnlyAfterCheckDone ==
    \A i \in Ids :
        (output_format = "Mobi" /\ status[i] = "Success") =>
            /\ checked[i] = "done"
            /\ outcomes[i]["wait"] = "ok"

\* C9 amended: a Mobi entity is Success only by the supervisor, only after
\* its own process has exited, the non-blocking check of it having reported
\* finished or having itself returned an error, and after the blocking
\* collection returned success; the fan-out never marks it Success (no
\* Success precedes the Convert update), and once ProcessingComplete is
\* emitted every enqueued entity has been finalized.
C9_SuccessOnlyAfterExit ==
    /\ \A i \in Ids :
          (output_format = "Mobi" /\ status[i] = "Success") =>
              /\ checked[i] \in {"done", "err"}
              /\ proc[i] = "exited"
              /\ outcomes[i]["wait"] = "ok"
              /\ updates[i] = <<"Process", "Package", "Convert", "Success">>
    /\ \A i \in Ids :
          (output_format = "Mobi" /\ wpc[i] # "idle" /\ outcomes[i]["wait"] = "none") =>
              status[i] # "Success"
    /\ (output_format = "Mobi" /\ completeCount >= 1) =>
          \A i \in Enqueued : i \in Finalized /\ status[i] \in Terminal

\* Scenario B: a completed Mobi batch of two files, both Success.
C9_Witness ==
    /\ output_format = "Mobi"
    /\ nfiles = 2
    /\ completeCount = 1
    /\ status[0] = "Success"
    /\ status[1] = "Success"
    /\ checked[0] = "err"
    /\ checked[1] = "done"

\* C10 as stated: after every poll cycle the in-flight set has (enqueued so
\* far) - (finalized so far) records.
C10_InFlightIsEnqueuedMinusFinalized ==
    [][SupRetain =>
          Len(pending') = Cardinality(Enqueued') - Cardinality(Finalized')]_vars

\* C10 amended: after every poll cycle the in-flight set has (enqueued so
\* far) - (still buffered in the queue) - (finalized so far) records, that is
\* (received so far) - (finalized so far).
C10_InFlightIsReceivedMinusFinalized ==
    [][SupRetain =>
          /\ Len(pending') =
                Cardinality(Enqueued') - Len(chan') - Cardinality(Finalized')
          /\ Len(pending') = Cardinality(Received') - Cardinality(Finalized')
          /\ Cardinality(InFlight') = Len(pending')]_vars

\* The start of an outer iteration right after a poll cycle: one record
\* was polled and is still in flight, one entity is sent and not received.
C10_Witness ==
    /\ spc = "drain"
    /\ pi = 1
    /\ Len(pending) = 1
    /\ Len(chan) = 1
    /\ \E i \in InFlight : checked[i] = "notdone"

\* C11: for an empty input list, in each output format, no RegisterComic and
\* no ComicUpdate is ever emitted and the run ends with exactly one
\* ProcessingComplete; in Mobi mode the supervisor, which never receives an
\* entity, terminates.
C11_EmptyInput ==
    (nfiles = 0) =>
        /\ [](/\ registerLog = <<>>
              /\ \A i \in Ids : updates[i] = <<>>
              /\ completeCount <= 1
              /\ Received = {})
        /\ <>[](/\ completeCount = 1
                /\ dpc = "done"
                /\ output_format = "Mobi" => spc = "done")

\* The end of an empty Mobi batch: the supervisor has left its loop and has
\* emitted the one ProcessingComplete.
C11_Witness ==
    /\ nfiles = 0
    /\ output_format = "Mobi"
    /\ dpc = "done"
    /\ spc = "done"
    /\ completeCount = 1
    /\ registerLog = <<>>

\* C12: the supervisor loop is left only from the drain phase, with every
\* sender dropped, nothing buffered in the queue and the in-flight set
\* empty, and this stays so after the exit; with the queue closed and
\* records in flight its next step is the poll phase; with the queue merely
\* empty (a sender still alive) its next step is the poll phase, never the
\* exit.
C12_Step ==
    /\ (spc' \in {"exited", "done"} /\ spc \notin {"exited", "done"}) =>
          /\ spc = "drain"
          /\ ~kindlegen_tx
          /\ chan = <<>>
          /\ pending = <<>>
    /\ spc' \in {"exited", "done"} =>
          /\ ~kindlegen_tx'
          /\ chan' = <<>>
          /\ pending' = <<>>
    /\ (spc = "drain" /\ chan = <<>> /\ spc' # spc) =>
          IF ~kindlegen_tx /\ pending = <<>>
          THEN spc' = "exited"
          ELSE spc' = "poll" /\ pi' = 1 /\ pending' = pending

C12_ExitOnlyWhenClosedAndIdle == [][C12_Step]_vars

\* The drain phase finds the queue closed while a record pushed in this very
\* pass (never polled yet) is in flight: the next try_recv is Disconnected
\* with pending non-empty.
C12_Witness ==
    /\ spc = "drain"
    /\ ~kindlegen_tx
    /\ chan = <<>>
    /\ \E i \in InFlight : checked[i] = "none"

\* C13 as stated: the blocking wait() is called on a process only after the
\* try_wait of that process, in the same poll cycle, reported it completed.
C13_WaitOnlyAfterCheckDone ==
    spc = "collect" => checked[pending[pi][1]] = "done"

\* C13 amended: wait() is called on a process only after the try_wait of
\* that same process, in the same poll cycle, reported it completed or
\* itself returned an error; it is never called on a process whose try_wait
\* reported not-yet-finished.
C13_Step ==
    /\ spc' = "collect" =>
          /\ pending'[pi'] # NoneSlot
          /\ checked'[pending'[pi'][1]] \in {"done", "err"}
          /\ spc # "collect" =>
                /\ spc = "poll"
                /\ pi' = pi
                /\ pending' = pending
    /\ \A i \in Ids :
          outcomes'[i]["wait"] # outcomes[i]["wait"] =>
              /\ spc = "collect"
              /\ pending[pi] = Some(i)
              /\ checked[i] \in {"done", "err"}
              /\ proc[i] = "exited"
    /\ \A i \in Ids :
          (checked'[i] = "notdone" /\ checked[i] # "notdone") =>
              /\ spc' = "poll"
              /\ outcomes'[i]["wait"] = "none"

C13_WaitOnlyAfterCheck == [][C13_Step]_vars

\* One process was collected after its try_wait reported it completed while
\* the other record, reported not-yet-finished, is still in flight.
C13_Witness ==
    \E i, j \in Ids :
        /\ outcomes[i]["wait"] # "none"
        /\ checked[i] = "done"
        /\ checked[j] = "notdone"
        /\ j \in InFlight
        /\ outcomes[j]["wait"] = "none"

\* C14: when create_mobi fails for a received entity, the entity is marked
\* Failed and reported, that receive leaves the in-flight set unchanged and
\* spawns nothing, the supervisor stays in its drain loop, and the entity is
\* never in flight afterwards.
C14_Step ==
    \A i \in Ids :
        /\ (outcomes[i]["spawn"] = "none" /\ outcomes'[i]["spawn"] = "err") =>
              /\ status'[i] = "Failed"
              /\ updates'[i] = updates[i] \o <<"Convert", "Failed">>
              /\ pending' = pending
              /\ proc' = proc
              /\ spc' = "drain"
              /\ chan' = Tail(chan)
        /\ outcomes'[i]["spawn"] = "err" =>
              /\ i \notin InFlight'
              /\ proc'[i] = "none"
              /\ outcomes'[i]["wait"] = "none"
              /\ status'[i] = "Failed"

C14_SpawnFailure == [][C14_Step]_vars

\* A completed Mobi batch: the spawn failed for one entity and the
\* supervisor went on to convert the other.
C14_Witness ==
    /\ completeCount = 1
    /\ \E i, j \in Ids :
          /\ outcomes[i]["spawn"] = "err"
          /\ outcomes[j]["spawn"] = "ok"
          /\ status[j] = "Success"

\* C15: at the end of each poll phase every record whose try_wait reported
\* finished, or returned an error, is out of the in-flight set, whether its
\* collection succeeded or failed, and is Success exactly when the
\* collection succeeded; the records whose try_wait reported
\* not-yet-finished are the ones left, in their order, and no step of the
\* poll phase changes a slot other than the one it collects.
C15_Step ==
    /\ SupRetain =>
          /\ \A i \in Ids :
                checked[i] \in {"done", "err"} =>
                    /\ i \notin InFlight'
                    /\ outcomes[i]["wait"] # "none"
                    /\ status'[i] = "Success" <=> outcomes[i]["wait"] = "ok"
          /\ InFlight' = {i \in Ids : checked[i] = "notdone"}
          /\ InFlight' = InFlight
          /\ Len(pending') = Cardinality(InFlight')
          /\ \A k, l \in 1 .. Len(pending) :
                (k < l /\ pending[k] # NoneSlot /\ pending[l] # NoneSlot) =>
                    \E m, n \in 1 .. Len(pending') :
                        m < n /\ pending'[m] = pending[k] /\ pending'[n] = pending[l]
    /\ (spc \in {"poll", "collect"} /\ ~SupRetain) =>
          /\ Len(pending') = Len(pending)
          /\ \A k \in 1 .. Len(pending) :
                pending'[k] # pending[k] =>
                    /\ spc = "collect"
                    /\ k = pi
                    /\ pending'[k] = NoneSlot

C15_PollPhaseFrame == [][C15_Step]_vars

\* The outer iteration after a poll phase that removed a record whose
\* collection failed and left a not-yet-finished record in place.
C15_Witness ==
    /\ spc = "drain"
    /\ pi = 1
    /\ \E i, j \in Ids :
          /\ outcomes[i]["wait"] = "err"
          /\ i \notin InFlight
          /\ j \in InFlight
          /\ checked[j] = "notdone"

\* C16: a file whose Comic::new fails has exactly one RegisterComic and then
\* the single ComicUpdate{Failed} for its id and nothing more; it is not
\* among the comics, never runs in the fan-out and is never enqueued; the
\* other files are all registered and, in a completed batch, all terminal.
C16_ConstructionFailure ==
    /\ \A i \in Ids :
          outcomes[i]["new"] = "err" =>
              /\ Cardinality({k \in 1 .. Len(registerLog) : registerLog[k] = i}) = 1
              /\ updates[i] = <<"Failed">>
              /\ status[i] = "Failed"
              /\ i \notin comics
              /\ wpc[i] = "idle"
              /\ sent[i] = 0
              /\ i \notin InFlight
              /\ \A st \in Steps \ {"new"} : outcomes[i][st] = "none"
    /\ (\E i \in Ids : outcomes[i]["new"] = "err") =>
          /\ dpc \in {"join", "return", "done"} =>
                /\ Len(registerLog) = nfiles
                /\ \A j \in Ids : j < nfiles => outcomes[j]["new"] # "none"
                /\ comics = {j \in Ids : outcomes[j]["new"] = "ok"}
          /\ completeCount >= 1 =>
                \A j \in comics : status[j] \in Terminal /\ wpc[j] = "done"

\* A finished batch whose first file failed to open and whose second file
\* was processed to Success.
C16_Witness ==
    /\ dpc = "done"
    /\ completeCount = 1
    /\ outcomes[0]["new"] = "err"
    /\ status[1] = "Success"

\* C17: a ComicUpdate emitted while a RegisterComic of the batch is still to
\* come is the construction-failure update of the dispatcher's first pass;
\* every update of the fan-out or of the supervisor comes after the last
\* RegisterComic.
C17_RegisterBeforeUpdates ==
    Len(registerLog) < nfiles =>
        /\ \A i \in Ids :
              updates[i] # <<>> =>
                  /\ updates[i] = <<"Failed">>
                  /\ outcomes[i]["new"] = "err"
        /\ \A i \in Ids : wpc[i] = "idle"
        /\ chan = <<>>
        /\ pending = <<>>

\* The first pass has reported a construction failure and has another file
\* still to register.
C17_Witness ==
    /\ Len(registerLog) < nfiles
    /\ dpc = "register"
    /\ \E i \in Ids : updates[i] = <<"Failed">>

\* C18: for Epub output the artifact is in the output directory exactly when
\* the rename succeeded, which happens only after build_epub succeeded; an
\* entity whose assembly failed has nothing moved, one whose move succeeded
\* is Success, and one whose move failed is Failed and was never Success.
C18_MoveOnlyOnSuccess ==
    output_format = "Epub" =>
        \A i \in Ids :
            /\ i \in output_dir <=> outcomes[i]["move"] = "ok"
            /\ outcomes[i]["move"] # "none" => outcomes[i]["build"] = "ok"
            /\ outcomes[i]["build"] = "err" =>
                  /\ status[i] = "Failed"
                  /\ i \notin output_dir
            /\ outcomes[i]["move"] = "ok" => status[i] = "Success"
            /\ status[i] = "Failed" => i \notin output_dir
            /\ outcomes[i]["move"] = "err" =>
                  /\ status[i] = "Failed"
                  /\ \A k \in 1 .. Len(updates[i]) : updates[i][k] # "Success"
            /\ status[i] = "Success" => i \in output_dir

\* A finished Epub batch: the move failed for one entity and succeeded for
\* the other.
C18_Witness ==
    /\ output_format = "Epub"
    /\ dpc = "done"
    /\ \E i, j \in Ids :
          /\ outcomes[i]["move"] = "err"
          /\ outcomes[j]["move"] = "ok"

\* C19: in a Mobi batch the send of line 133 never fails: the supervisor is
\* started before the fan-out, the receiver lives as long as the sender
\* does, every closure has returned before the sender is dropped, and the
\* unwrap never panics.
C19_SendNeverFails ==
    /\ ~panicked
    /\ output_format = "Mobi" =>
          /\ (\E i \in Ids : wpc[i] # "idle") => spc # "none"
          /\ kindlegen_tx =>
                /\ kindlegen_rx
                /\ spc \notin {"exited", "done"}
          /\ \A i \in Ids : wpc[i] \notin {"idle", "done"} =>
                /\ kindlegen_tx
                /\ kindlegen_rx
          /\ \A i \in Enqueued : outcomes[i]["build"] = "ok" /\ wpc[i] = "done"

\* An entity was sent while the supervisor, having finalized the only other
\* entity, had nothing in flight and an empty queue before that send.
C19_Witness ==
    /\ output_format = "Mobi"
    /\ pending = <<>>
    /\ Len(chan) = 1
    /\ \E j \in Ids : outcomes[j]["wait"] # "none"

\* C20: no enqueued entity is lost. Every entity sent is either still
\* buffered in the queue or was received, never both; every received entity
\* was put in flight (and stays there until it is collected) or was marked
\* Failed at spawn; and once the supervisor loop has been left nothing is
\* buffered and everything sent was received and finalized.
C20_NoEntityLost ==
    /\ \A i \in Enqueued :
          (\E k \in 1 .. Len(chan) : chan[k] = i) <=> i \notin Received
    /\ Received \subseteq Enqueued
    /\ \A i \in Received :
          IF outcomes[i]["spawn"] = "ok"
          THEN i \in InFlight <=> outcomes[i]["wait"] = "none"
          ELSE status[i] = "Failed" /\ i \notin InFlight
    /\ spc \in {"exited", "done"} =>
          /\ chan = <<>>
          /\ \A i \in comics : wpc[i] = "done"
          /\ Enqueued = Received
          /\ Enqueued = Finalized

\* The supervisor has left its loop after two entities were sent: one
\* failed at spawn, the other was collected.
C20_Witness ==
    /\ spc = "done"
    /\ Cardinality(Enqueued) = 2
    /\ \E i, j \in Ids :
          /\ outcomes[i]["spawn"] = "err"
          /\ outcomes[j]["wait"] # "none"
====
